---- MODULE Spec2Model ----
(***************************************************************************)
(* Wookie Books REST API (NestJS + TypeORM on sqlite): users, login with   *)
(* bearer tokens, and the book resource with its ownership checks.         *)
(*                                                                         *)
(* The state is the two tables (user, book), their auto-increment          *)
(* counters, the set of tokens handed out by login, the create-book        *)
(* requests suspended between their two awaits, and the last               *)
(* request/response exchange.  One action per HTTP route; an action runs   *)
(* the authenticator, the controller method and the service method it      *)
(* calls, to completion.  POST /books also exists as the two steps its     *)
(* awaits cut it into, for the interleavings with other requests.          *)
(***************************************************************************)
EXTENDS Integers, Sequences, FiniteSets, TLC

VARIABLES users, nextUserId, books, nextBookId, issued, inflight, last

vars == <<users, nextUserId, books, nextBookId, issued, inflight, last>>

(***************************************************************************)
(* Bounds of the model.                                                    *)
(***************************************************************************)
MaxUsers == 2        \* rows ever inserted into the user table
MaxBooks == 2        \* rows ever inserted into the book table
MaxTokens == 2       \* tokens handed out by login
MaxInflight == 1     \* create-book requests suspended at one time
MaxPending == 2      \* update and remove requests suspended at one time

Usernames == {"Darth Vader", "darth vader"}
Passwords == {"p1", "p2"}

UserIds == 1..MaxUsers

(***************************************************************************)
(* Values.  null/undefined of the source is the record with id 0: a row    *)
(* always has id >= 1, so "!x" of the source is x.id = 0.                  *)
(***************************************************************************)
Null == [id |-> 0]

\* HTTP status of each exception class of @nestjs/common
statusCode(kind) ==
    CASE kind = "BadRequest" -> 400
      [] kind = "Unauthorized" -> 401
      [] kind = "Forbidden" -> 403
      [] kind = "NotFound" -> 404
      [] OTHER -> 500

\* a returned value
Ok(v) == [kind |-> "ok", message |-> "", value |-> v]

\* a thrown HttpException: its class and its message
Throw(kind, message) ==
    [kind |-> kind, message |-> message,
     value |-> [statusCode |-> statusCode(kind), message |-> message]]

\* Object.assign(target, source)
ObjectAssign(target, source) ==
    [f \in DOMAIN target \cup DOMAIN source |->
        IF f \in DOMAIN source THEN source[f] ELSE target[f]]

(***************************************************************************)
(* bcrypt.  A digest remembers the plaintext it was made from only so that *)
(* compare can be computed; a column holding a string that is not a digest *)
(* is Raw(p).                                                              *)
(***************************************************************************)
bcryptHash(p, rounds) == [alg |-> "bcrypt", rounds |-> rounds, of |-> p]

Raw(p) == [alg |-> "none", rounds |-> 0, of |-> p]

bcryptCompare(pass, stored) == stored.alg = "bcrypt" /\ stored.of = pass

(***************************************************************************)
(* JSON web tokens: the payload and the key that signed it.                *)
(***************************************************************************)
MiddlewareSecret == "secret"

\* the key JwtService signs with, and the absence of an expiry
JwtServiceSecret == "secret"

jwtSign(payload) ==
    [username |-> payload.username, sub |-> payload.sub, key |-> JwtServiceSecret]

\* jwt.verify: the payload, or an error (Null) on a bad signature
jwtVerify(token, secret) ==
    IF token.key = secret THEN [id |-> 1, sub |-> token.sub, username |-> token.username]
    ELSE Null

\* tokens nobody signed with the secret
ForgedTokens == {[username |-> "luke", sub |-> 1, key |-> "forged"]}

(***************************************************************************)
(* UsersService                                                            *)
(***************************************************************************)
\* usersRepository.findOne({ where: { username } })
findByUsername(username) ==
    IF \E i \in DOMAIN users : users[i].username = username
    THEN users[CHOOSE i \in DOMAIN users : users[i].username = username]
    ELSE Null

\* UsersService.findById
findById(id) ==
    IF id \in DOMAIN users THEN Ok(users[id])
    ELSE Throw("NotFound", "User not found")

\* the unique index on user.username
UsernameTaken(username, except) ==
    \E i \in DOMAIN users : i # except /\ users[i].username = username

\* UsersService.create saving the password as it came
UsersService_create_NoHash(user) ==
    IF user.username = "" \/ user.password = ""
    THEN [res |-> Throw("BadRequest", "Username and password are required"),
          users |-> users, nextUserId |-> nextUserId]
    ELSE LET saved == [id |-> nextUserId, username |-> user.username,
                       password |-> Raw(user.password),
                       authorPseudonym |-> user.authorPseudonym]
         IN  IF UsernameTaken(user.username, 0)
             THEN [res |-> Throw("InternalServerError", "An error occurred while creating the user"),
                   users |-> users, nextUserId |-> nextUserId]
             ELSE [res |-> Ok(saved),
                   users |-> [i \in DOMAIN users \cup {nextUserId} |->
                                 IF i = nextUserId THEN saved ELSE users[i]],
                   nextUserId |-> nextUserId + 1]

\* UsersService.create: result and the user table after it
UsersService_create(user) ==
    IF user.username = "" \/ user.password = ""
    THEN [res |-> Throw("BadRequest", "Username and password are required"),
          users |-> users, nextUserId |-> nextUserId]
    ELSE LET hashed == [user EXCEPT !.password = bcryptHash(user.password, 10)]
             saved == [id |-> nextUserId, username |-> hashed.username,
                       password |-> hashed.password,
                       authorPseudonym |-> hashed.authorPseudonym]
         IN  IF UsernameTaken(user.username, 0)
             THEN [res |-> Throw("InternalServerError", "An error occurred while creating the user"),
                   users |-> users, nextUserId |-> nextUserId]
             ELSE [res |-> Ok(saved),
                   users |-> [i \in DOMAIN users \cup {nextUserId} |->
                                 IF i = nextUserId THEN saved ELSE users[i]],
                   nextUserId |-> nextUserId + 1]

\* usersRepository.update(id, updateData): the row with the supplied columns set
ApplyUserUpdate(row, updateData) ==
    [f \in DOMAIN row |->
        IF f \in DOMAIN updateData
        THEN IF f = "password" THEN Raw(updateData[f]) ELSE updateData[f]
        ELSE row[f]]

\* UsersService.update on a user table with no unique index on username
UsersService_update_NoUniqueIndex(id, updateData) ==
    IF findById(id).kind # "ok"
    THEN [res |-> findById(id), users |-> users]
    ELSE [res |-> Ok(ApplyUserUpdate(users[id], updateData)),
          users |-> [users EXCEPT ![id] = ApplyUserUpdate(users[id], updateData)]]

\* UsersService.update: result and the user table after it
UsersService_update(id, updateData) ==
    IF findById(id).kind # "ok"
    THEN [res |-> findById(id), users |-> users]
    ELSE IF "username" \in DOMAIN updateData /\ UsernameTaken(updateData.username, id)
    THEN [res |-> Throw("InternalServerError", "An error occurred while updating the user"),
          users |-> users]
    ELSE [res |-> Ok(ApplyUserUpdate(users[id], updateData)),
          users |-> [users EXCEPT ![id] = ApplyUserUpdate(users[id], updateData)]]

\* book.authorId references user.id with no ON DELETE action
BooksOf(id) == {b \in DOMAIN books : books[b].author = id}

\* UsersService.delete on a schema where no foreign key refers to user.id
UsersService_delete_NoForeignKey(id) ==
    IF id \notin DOMAIN users
    THEN [res |-> Throw("NotFound", "User not found"), users |-> users]
    ELSE [res |-> Ok([message |-> "User successfully deleted"]),
          users |-> [i \in DOMAIN users \ {id} |-> users[i]]]

\* UsersService.delete: result and the user table after it
UsersService_delete(id) ==
    IF BooksOf(id) # {}
    THEN [res |-> Throw("InternalServerError", "An error occurred while deleting the user"),
          users |-> users]
    ELSE IF id \notin DOMAIN users
    THEN [res |-> Throw("NotFound", "User not found"), users |-> users]
    ELSE [res |-> Ok([message |-> "User successfully deleted"]),
          users |-> [i \in DOMAIN users \ {id} |-> users[i]]]

(***************************************************************************)
(* AuthService                                                             *)
(***************************************************************************)
\* the user without its password field
WithoutPassword(user) == [f \in DOMAIN user \ {"password"} |-> user[f]]

\* AuthService.validateUser telling a missing user from a wrong password
validateUser_UserNotFound(username, pass) ==
    LET user == findByUsername(username)
    IN  IF user.id = 0
        THEN Throw("Unauthorized", "User not found")
        ELSE IF ~bcryptCompare(pass, user.password)
        THEN Throw("Unauthorized", "Invalid username or password")
        ELSE Ok(WithoutPassword(user))

\* AuthService.validateUser returning the row as it is stored
validateUser_KeepsPassword(username, pass) ==
    LET user == findByUsername(username)
    IN  IF user.id = 0
        THEN Throw("Unauthorized", "Invalid username or password")
        ELSE IF ~bcryptCompare(pass, user.password)
        THEN Throw("Unauthorized", "Invalid username or password")
        ELSE Ok(user)

\* AuthService.validateUser
validateUser(username, pass) ==
    LET user == findByUsername(username)
    IN  IF user.id = 0
        THEN Throw("Unauthorized", "Invalid username or password")
        ELSE IF ~bcryptCompare(pass, user.password)
        THEN Throw("Unauthorized", "Invalid username or password")
        ELSE Ok(WithoutPassword(user))

\* AuthService.login
AuthService_login(user) ==
    Ok([access_token |-> jwtSign([username |-> user.username, sub |-> user.id])])

\* AuthController.login
AuthController_login(body) ==
    LET user == validateUser(body.username, body.password)
    IN  IF user.kind = "ok" THEN AuthService_login(user.value)
        ELSE IF user.kind \in {"Unauthorized", "BadRequest"} THEN user
        ELSE Throw("InternalServerError", "An unexpected error occurred")

\* The login flow when a collaborator fails: "store" is a rejected
\* usersRepository.findOne, "sign" a throwing jwtService.sign, "none" neither.
Faults == {"none", "store", "sign"}

\* UsersService.findByUsername and AuthService.validateUser over it: the
\* repository's error becomes InternalServerError in each catch
validateUserUnder(fault, username, pass) ==
    IF fault = "store"
    THEN Throw("InternalServerError", "An error occurred while validating the user")
    ELSE validateUser(username, pass)

\* AuthService.login: the error of sign becomes InternalServerError
AuthService_loginUnder(fault, user) ==
    IF fault = "sign"
    THEN Throw("InternalServerError", "An error occurred while generating the access token")
    ELSE AuthService_login(user)

\* AuthController.login answering Unauthorized to whatever goes wrong
AuthController_loginUnder_AllUnauthorized(fault, body) ==
    LET user == validateUserUnder(fault, body.username, body.password)
    IN  IF user.kind = "ok" /\ AuthService_loginUnder(fault, user.value).kind = "ok"
        THEN AuthService_loginUnder(fault, user.value)
        ELSE Throw("Unauthorized", "Invalid username or password")

\* AuthController.login: the promise of authService.login is returned as it is
AuthController_loginUnder(fault, body) ==
    LET user == validateUserUnder(fault, body.username, body.password)
    IN  IF user.kind = "ok" THEN AuthService_loginUnder(fault, user.value)
        ELSE IF user.kind \in {"Unauthorized", "BadRequest"} THEN user
        ELSE Throw("InternalServerError", "An unexpected error occurred")

(***************************************************************************)
(* Request authentication                                                  *)
(***************************************************************************)
\* An Authorization header is the sequence of its words (split(' '));
\* <<>> is the absent header.
startsWithBearer(authHeader) == Len(authHeader) >= 2 /\ authHeader[1] = "Bearer"

\* JwtMiddleware.use reading the payload with jwt.decode: no signature check
JwtMiddleware_DecodeOnly(authHeader) ==
    IF authHeader = <<>> \/ ~startsWithBearer(authHeader)
    THEN [res |-> Throw("Unauthorized", "Authorization token is missing or invalid"),
          user |-> Null, next |-> FALSE]
    ELSE [res |-> Ok(Null), user |-> [id |-> authHeader[2].sub], next |-> TRUE]

\* JwtMiddleware.use looking the subject up in the user table
JwtMiddleware_LooksUpUser(authHeader) ==
    IF authHeader = <<>> \/ ~startsWithBearer(authHeader)
    THEN [res |-> Throw("Unauthorized", "Authorization token is missing or invalid"),
          user |-> Null, next |-> FALSE]
    ELSE LET decoded == jwtVerify(authHeader[2], MiddlewareSecret)
         IN  IF decoded.id = 0 \/ decoded.sub \notin DOMAIN users
             THEN [res |-> Throw("Unauthorized", "Invalid or expired token"),
                   user |-> Null, next |-> FALSE]
             ELSE [res |-> Ok(Null), user |-> [id |-> decoded.sub], next |-> TRUE]

\* JwtMiddleware.use: req.user and whether next() ran, or the exception
JwtMiddleware(authHeader) ==
    IF authHeader = <<>> \/ ~startsWithBearer(authHeader)
    THEN [res |-> Throw("Unauthorized", "Authorization token is missing or invalid"),
          user |-> Null, next |-> FALSE]
    ELSE LET decoded == jwtVerify(authHeader[2], MiddlewareSecret)
         IN  IF decoded.id = 0
             THEN [res |-> Throw("Unauthorized", "Invalid or expired token"),
                   user |-> Null, next |-> FALSE]
             ELSE [res |-> Ok(Null), user |-> [id |-> decoded.sub], next |-> TRUE]

\* the guard in front of the /users/me routes
JwtStrategy(authHeader) ==
    IF Len(authHeader) >= 2 /\ authHeader[1] = "Bearer"
       /\ jwtVerify(authHeader[2], JwtServiceSecret).id # 0
    THEN [res |-> Ok(Null), user |-> [id |-> authHeader[2].sub], next |-> TRUE]
    ELSE [res |-> Throw("Unauthorized", "Unauthorized"), user |-> Null, next |-> FALSE]

\* the headers a client holding the issued tokens may send
GoodHeaders == {<<"Bearer", t>> : t \in issued}

\* no header, no token after the scheme, another scheme, another casing of
\* the scheme, and a token signed with another key
BadHeaders ==
    {<<>>, <<"Bearer">>}
      \cup {<<"Basic", t>> : t \in ForgedTokens}
      \cup {<<"bearer", t>> : t \in issued}
      \cup {<<"Bearer", t>> : t \in ForgedTokens}

Headers == GoodHeaders \cup BadHeaders

(***************************************************************************)
(* The exchange record: the route, the Authorization header sent, req.user  *)
(* (0 when none), whether the handler ran, the id the request names (the   *)
(* :id of a book route, the row a login's username resolves to), the       *)
(* service's outcome and the response.                                     *)
(***************************************************************************)
Exchange(op, header, auth, id, svc, res) ==
    [op |-> op, header |-> header, user |-> auth.user.id, next |-> auth.next,
     id |-> id, svc |-> svc.kind, kind |-> res.kind, message |-> res.message,
     body |-> res.value]

NoAuth == [user |-> Null, next |-> TRUE]

\* a request the authenticator threw on: no route parameter was ever read
Rejected(op, header, auth) ==
    Exchange(op, header, auth, 0, [kind |-> "none"], auth.res)

(***************************************************************************)
(* UsersController                                                         *)
(***************************************************************************)
\* POST /users
CreateUser(username, password) ==
    LET r == UsersService_create([username |-> username, password |-> password,
                                  authorPseudonym |-> username])
        res == IF r.res.kind = "ok" THEN r.res
               ELSE Throw("InternalServerError", "An error occurred while creating the user")
    IN  /\ r.res.kind = "ok" => nextUserId <= MaxUsers
        /\ users' = r.users
        /\ nextUserId' = r.nextUserId
        /\ last' = ObjectAssign(Exchange("createUser", <<>>, NoAuth, 0, r.res, res),
                                [request |-> [username |-> username, password |-> password]])
        /\ UNCHANGED <<books, nextBookId, issued, inflight>>

\* GET /users/me
GetProfile(header) ==
    LET auth == JwtStrategy(header)
        r == findById(auth.user.id)
        res == IF r.kind \in {"ok", "Unauthorized"} THEN r
               ELSE Throw("InternalServerError", "An error occurred while fetching the user profile")
    IN  /\ last' = IF auth.next THEN Exchange("getProfile", header, auth, 0, r, res)
                   ELSE Rejected("getProfile", header, auth)
        /\ UNCHANGED <<users, nextUserId, books, nextBookId, issued, inflight>>

\* PATCH /users/me
UpdateProfile(header, updateData) ==
    LET auth == JwtStrategy(header)
        r == UsersService_update(auth.user.id, updateData)
        res == IF r.res.kind \in {"ok", "BadRequest"} THEN r.res
               ELSE Throw("InternalServerError", "An error occurred while updating the user profile")
    IN  /\ users' = IF auth.next THEN r.users ELSE users
        /\ last' = ObjectAssign(IF auth.next
                                THEN Exchange("updateProfile", header, auth, 0, r.res, res)
                                ELSE Rejected("updateProfile", header, auth),
                                [request |-> updateData])
        /\ UNCHANGED <<nextUserId, books, nextBookId, issued, inflight>>

\* DELETE /users/me
DeleteProfile(header) ==
    LET auth == JwtStrategy(header)
        r == UsersService_delete(auth.user.id)
        res == IF r.res.kind = "ok" THEN Ok([message |-> "User profile deleted successfully"])
               ELSE Throw("InternalServerError", "An error occurred while deleting the user profile")
    IN  /\ users' = IF auth.next THEN r.users ELSE users
        /\ last' = IF auth.next THEN Exchange("deleteProfile", header, auth, 0, r.res, res)
                   ELSE Rejected("deleteProfile", header, auth)
        /\ UNCHANGED <<nextUserId, books, nextBookId, issued, inflight>>

\* POST /auth/login
Login(username, password) ==
    LET v == validateUser(username, password)
        res == AuthController_login([username |-> username, password |-> password])
    IN  /\ res.kind = "ok" =>
              \/ res.value.access_token \in issued
              \/ Cardinality(issued) < MaxTokens
        /\ issued' = IF res.kind = "ok" THEN issued \cup {res.value.access_token} ELSE issued
        /\ last' = Exchange("login", <<>>, NoAuth, findByUsername(username).id, v, res)
        /\ UNCHANGED <<users, nextUserId, books, nextBookId, inflight>>

\* POST /auth/login while a collaborator may fail
LoginUnder(fault, username, password) ==
    LET body == [username |-> username, password |-> password]
        v == validateUserUnder(fault, username, password)
        res == AuthController_loginUnder(fault, body)
    IN  /\ res.kind = "ok" =>
              \/ res.value.access_token \in issued
              \/ Cardinality(issued) < MaxTokens
        /\ issued' = IF res.kind = "ok" THEN issued \cup {res.value.access_token} ELSE issued
        /\ last' = ObjectAssign(Exchange("login", <<>>, NoAuth, findByUsername(username).id, v, res),
                                [request |-> body, fault |-> fault])
        /\ UNCHANGED <<users, nextUserId, books, nextBookId, inflight>>

(***************************************************************************)
(* BooksService                                                            *)
(***************************************************************************)
\* a book row joined with its author row (relations: ['author'])
WithAuthor(row) ==
    [row EXCEPT !.author = IF row.author \in DOMAIN users THEN users[row.author] ELSE Null]

\* booksRepository.findOne({ where: { id }, relations: ['author'] })
findBook(id) == IF id \in DOMAIN books THEN WithAuthor(books[id]) ELSE Null

\* the row booksRepository.save writes for an entity: the author relation is
\* stored as its id, isPublished has the column default true
BookRow(id, entity) ==
    [id |-> id, title |-> entity.title, description |-> entity.description,
     coverImage |-> entity.coverImage, price |-> entity.price,
     isPublished |-> IF "isPublished" \in DOMAIN entity THEN entity.isPublished ELSE TRUE,
     author |-> entity.author.id]

(***************************************************************************)
(* The filtered listing.  A query is the record of the parameters present  *)
(* in the URL, each a string.  LIKE needs the characters of a string.      *)
(***************************************************************************)
\* the characters of the strings that titles, pseudonyms and queries use
chars(s) ==
    CASE s = "" -> <<>>
      [] s = "t1" -> <<"t", "1">>
      [] s = "t2" -> <<"t", "2">>
      [] s = "T1" -> <<"T", "1">>
      [] s = "VADER" -> <<"V", "A", "D", "E", "R">>
      [] s = "Chewie" -> <<"C", "h", "e", "w", "i", "e">>
      [] s = "darth vader" -> <<"d", "a", "r", "t", "h", " ", "v", "a", "d", "e", "r">>
      [] s = "Darth Vader" -> <<"D", "a", "r", "t", "h", " ", "V", "a", "d", "e", "r">>

\* sqlite folds the ASCII letters of both operands of LIKE
lower(c) ==
    CASE c = "A" -> "a" [] c = "C" -> "c" [] c = "D" -> "d" [] c = "E" -> "e"
      [] c = "R" -> "r" [] c = "T" -> "t" [] c = "V" -> "v" [] OTHER -> c

\* value LIKE pattern: % is any run of characters, _ any one character
RECURSIVE Like(_, _)
Like(value, pattern) ==
    IF pattern = <<>> THEN value = <<>>
    ELSE IF Head(pattern) = "%"
    THEN Like(value, Tail(pattern)) \/ (value # <<>> /\ Like(Tail(value), pattern))
    ELSE /\ value # <<>>
         /\ (Head(pattern) = "_" \/ lower(Head(pattern)) = lower(Head(value)))
         /\ Like(Tail(value), Tail(pattern))

\* the template `%${x}%`
Wrapped(x) == <<"%">> \o chars(x) \o <<"%">>

\* if (query.k): the parameter is there and is not the empty string
Truthy(query, k) == k \in DOMAIN query /\ query[k] # ""

\* parseFloat on the strings the queries use; nan for a string with no number
parseFloat(s) ==
    CASE s = "10" -> [nan |-> FALSE, n |-> 10]
      [] s = "30" -> [nan |-> FALSE, n |-> 30]
      [] OTHER -> [nan |-> TRUE, n |-> 0]

\* BETWEEN leaving out the two bounds
Between_Exclusive(x, lo, hi) == ~lo.nan /\ ~hi.nan /\ lo.n < x /\ x < hi.n

\* x BETWEEN lo AND hi, a NaN bound being bound as NULL
Between(x, lo, hi) == ~lo.nan /\ ~hi.nan /\ lo.n <= x /\ x <= hi.n

\* the parameter read as a JavaScript truth value
isPublishedParam_Truthy(v) == v # ""

\* query.isPublished === 'true'
isPublishedParam(v) == v = "true"

\* the andWhere calls findAllWithFilters makes for a query
WhereClauses(query) ==
    (IF Truthy(query, "title") THEN {"title"} ELSE {})
      \cup (IF Truthy(query, "authorPseudonym")
            THEN {"authorNotNull", "authorPseudonym"} ELSE {})
      \cup (IF "isPublished" \in DOMAIN query THEN {"isPublished"} ELSE {})
      \cup (IF Truthy(query, "minPrice") /\ Truthy(query, "maxPrice") THEN {"price"} ELSE {})

\* one clause on a book row left-joined with its author
Holds(clause, row, query) ==
    CASE clause = "title" -> Like(chars(row.title), Wrapped(query.title))
      [] clause = "authorNotNull" -> row.author.id # 0
      [] clause = "authorPseudonym" ->
            /\ row.author.id # 0
            /\ Like(chars(row.author.authorPseudonym), Wrapped(query.authorPseudonym))
      [] clause = "isPublished" -> row.isPublished = isPublishedParam(query.isPublished)
      [] clause = "price" ->
            Between(row.price, parseFloat(query.minPrice), parseFloat(query.maxPrice))

\* BooksService.findAllWithFilters listing only published books when the
\* query does not say, as findAll does
BooksService_findAllWithFilters_PublishedOnly(query) ==
    Ok({WithAuthor(books[b]) : b \in
           {i \in DOMAIN books :
               /\ \A clause \in WhereClauses(query) : Holds(clause, WithAuthor(books[i]), query)
               /\ "isPublished" \notin DOMAIN query => books[i].isPublished}})

\* BooksService.findAllWithFilters: the rows getMany returns, without their order
BooksService_findAllWithFilters(query) ==
    Ok({WithAuthor(books[b]) : b \in
           {i \in DOMAIN books :
               \A clause \in WhereClauses(query) : Holds(clause, WithAuthor(books[i]), query)}})

\* BooksService.findAll keeping to the published books under a search term too
BooksService_findAll_PublishedOnly(args) ==
    LET search == IF args = <<>> THEN "" ELSE args[1]
    IN  Ok({WithAuthor(books[b]) : b \in
               {i \in DOMAIN books :
                   /\ books[i].isPublished
                   /\ search # "" => (books[i].title = search \/ books[i].description = search)}})

\* BooksService.findAll(search?): args is <<>> for findAll() and <<search>>
\* for findAll(search); `if (search)` is false for the empty string too
BooksService_findAll(args) ==
    LET search == IF args = <<>> THEN "" ELSE args[1]
    IN  IF search # ""
        THEN Ok({WithAuthor(books[b]) : b \in
                    {i \in DOMAIN books :
                        books[i].title = search \/ books[i].description = search}})
        ELSE Ok({WithAuthor(books[b]) : b \in {i \in DOMAIN books : books[i].isPublished}})

\* a caller of BooksService.findAll (no route of BooksController calls it)
SimpleListing(args) ==
    LET r == BooksService_findAll(args)
    IN  /\ last' = ObjectAssign(Exchange("BooksService.findAll", <<>>, NoAuth, 0, r, r),
                                [search |-> args])
        /\ UNCHANGED <<users, nextUserId, books, nextBookId, issued, inflight>>

\* BooksService.findOne looking a falsy id up like any other
BooksService_findOne_NoIdCheck(id) ==
    IF findBook(id).id = 0 THEN Throw("NotFound", "Book not found")
    ELSE Ok(findBook(id))

\* BooksService.findOne
BooksService_findOne(id) ==
    IF id = 0 THEN Throw("BadRequest", "Invalid book ID")
    ELSE IF findBook(id).id = 0 THEN Throw("NotFound", "Book not found")
    ELSE Ok(findBook(id))

\* BooksService.create comparing the username without regard to case
BooksService_create_AnyCase(user, bookData) ==
    LET author == IF user.id \in DOMAIN users
                  THEN [id |-> users[user.id].id, username |-> users[user.id].username]
                  ELSE Null
        book == ObjectAssign(bookData, [author |-> author])
        saved == ObjectAssign(book, [id |-> nextBookId,
                                     isPublished |-> BookRow(nextBookId, book).isPublished])
    IN  IF author.id = 0
        THEN [res |-> Throw("NotFound", "Author not found"),
              books |-> books, nextBookId |-> nextBookId]
        ELSE IF author.username \in {"Darth Vader", "darth vader"}
        THEN [res |-> Throw("Forbidden", "Darth Vader is not allowed to publish Wookie books."),
              books |-> books, nextBookId |-> nextBookId]
        ELSE [res |-> Ok(saved),
              books |-> [i \in DOMAIN books \cup {nextBookId} |->
                            IF i = nextBookId THEN BookRow(nextBookId, book) ELSE books[i]],
              nextBookId |-> nextBookId + 1]

\* BooksService.create with no rule about the author's username
BooksService_create_AllowsDarthVader(user, bookData) ==
    LET author == IF user.id \in DOMAIN users
                  THEN [id |-> users[user.id].id, username |-> users[user.id].username]
                  ELSE Null
        book == ObjectAssign(bookData, [author |-> author])
        saved == ObjectAssign(book, [id |-> nextBookId,
                                     isPublished |-> BookRow(nextBookId, book).isPublished])
    IN  IF author.id = 0
        THEN [res |-> Throw("NotFound", "Author not found"),
              books |-> books, nextBookId |-> nextBookId]
        ELSE [res |-> Ok(saved),
              books |-> [i \in DOMAIN books \cup {nextBookId} |->
                            IF i = nextBookId THEN BookRow(nextBookId, book) ELSE books[i]],
              nextBookId |-> nextBookId + 1]

\* BooksService.create: result and the book table after it
BooksService_create(user, bookData) ==
    LET author == IF user.id \in DOMAIN users
                  THEN [id |-> users[user.id].id, username |-> users[user.id].username]
                  ELSE Null
        book == ObjectAssign(bookData, [author |-> author])
        saved == ObjectAssign(book, [id |-> nextBookId,
                                     isPublished |-> BookRow(nextBookId, book).isPublished])
    IN  IF author.id = 0
        THEN [res |-> Throw("NotFound", "Author not found"),
              books |-> books, nextBookId |-> nextBookId]
        ELSE IF author.username = "Darth Vader"
        THEN [res |-> Throw("Forbidden", "Darth Vader is not allowed to publish Wookie books."),
              books |-> books, nextBookId |-> nextBookId]
        ELSE [res |-> Ok(saved),
              books |-> [i \in DOMAIN books \cup {nextBookId} |->
                            IF i = nextBookId THEN BookRow(nextBookId, book) ELSE books[i]],
              nextBookId |-> nextBookId + 1]

\* BooksService.create going on to the save when the author row is not found
BooksService_create_findAuthor_NoAuthorCheck(user, bookData) ==
    LET author == IF user.id \in DOMAIN users
                  THEN [id |-> users[user.id].id, username |-> users[user.id].username]
                  ELSE [id |-> user.id, username |-> ""]
    IN  IF author.username = "Darth Vader"
        THEN [res |-> Throw("Forbidden", "Darth Vader is not allowed to publish Wookie books."),
              book |-> Null]
        ELSE [res |-> Ok(author), book |-> ObjectAssign(bookData, [author |-> author])]

\* BooksService.create up to its first await: the author row with the two
\* selected columns, and the entity booksRepository.create builds
BooksService_create_findAuthor(user, bookData) ==
    LET author == IF user.id \in DOMAIN users
                  THEN [id |-> users[user.id].id, username |-> users[user.id].username]
                  ELSE Null
    IN  IF author.id = 0
        THEN [res |-> Throw("NotFound", "Author not found"), book |-> Null]
        ELSE IF author.username = "Darth Vader"
        THEN [res |-> Throw("Forbidden", "Darth Vader is not allowed to publish Wookie books."),
              book |-> Null]
        ELSE [res |-> Ok(author), book |-> ObjectAssign(bookData, [author |-> author])]

\* BooksService.create saving into a book table whose authorId refers to
\* nothing
BooksService_create_save_NoForeignKey(book) ==
    LET saved == ObjectAssign(book, [id |-> nextBookId,
                                     isPublished |-> BookRow(nextBookId, book).isPublished])
    IN  [res |-> Ok(saved),
         books |-> [i \in DOMAIN books \cup {nextBookId} |->
                       IF i = nextBookId THEN BookRow(nextBookId, book) ELSE books[i]],
         nextBookId |-> nextBookId + 1]

\* BooksService.create from booksRepository.save on: the INSERT, which the
\* foreign key book.authorId -> user.id rejects when the author row is gone.
\* The promise of save is returned without await, so its rejection passes the
\* catch of the service as the driver's QueryFailedError.
BooksService_create_save(book) ==
    LET saved == ObjectAssign(book, [id |-> nextBookId,
                                     isPublished |-> BookRow(nextBookId, book).isPublished])
    IN  IF book.author.id \notin DOMAIN users
        THEN [res |-> Throw("QueryFailedError", "FOREIGN KEY constraint failed"),
              books |-> books, nextBookId |-> nextBookId]
        ELSE [res |-> Ok(saved),
              books |-> [i \in DOMAIN books \cup {nextBookId} |->
                            IF i = nextBookId THEN BookRow(nextBookId, book) ELSE books[i]],
              nextBookId |-> nextBookId + 1]

\* BooksService.update without the comparison of the author with the caller
BooksService_update_NoOwnerCheck(user, id, bookData) ==
    LET book == findBook(id)
        assigned == ObjectAssign(book, bookData)
    IN  IF book.id = 0
        THEN [res |-> Throw("NotFound", "Book not found"), books |-> books]
        ELSE IF book.author.id = 0
        THEN [res |-> Throw("Unauthorized", "You are not authorized to update this book"),
              books |-> books]
        ELSE IF assigned.author.id # 0 /\ assigned.author.id \notin DOMAIN users
        THEN [res |-> Throw("InternalServerError", "An error occurred while updating the book"),
              books |-> books]
        ELSE [res |-> Ok(assigned),
              books |-> [books EXCEPT ![id] = BookRow(id, assigned)]]

\* BooksService.update never writing the publication flag
BooksService_update_KeepsFlag(user, id, bookData) ==
    LET book == findBook(id)
        assigned == [ObjectAssign(book, bookData) EXCEPT !.isPublished = book.isPublished]
    IN  IF book.id = 0
        THEN [res |-> Throw("NotFound", "Book not found"), books |-> books]
        ELSE IF book.author.id = 0 \/ book.author.id # user.id
        THEN [res |-> Throw("Unauthorized", "You are not authorized to update this book"),
              books |-> books]
        ELSE [res |-> Ok(assigned),
              books |-> [books EXCEPT ![id] = BookRow(id, assigned)]]

\* BooksService.update: result and the book table after it
BooksService_update(user, id, bookData) ==
    LET book == findBook(id)
        assigned == ObjectAssign(book, bookData)
    IN  IF book.id = 0
        THEN [res |-> Throw("NotFound", "Book not found"), books |-> books]
        ELSE IF book.author.id = 0 \/ book.author.id # user.id
        THEN [res |-> Throw("Unauthorized", "You are not authorized to update this book"),
              books |-> books]
        ELSE IF assigned.author.id # 0 /\ assigned.author.id \notin DOMAIN users
        THEN [res |-> Throw("InternalServerError", "An error occurred while updating the book"),
              books |-> books]
        ELSE [res |-> Ok(assigned),
              books |-> [books EXCEPT ![id] = BookRow(id, assigned)]]

\* BooksService.remove refusing a book that is already unpublished
BooksService_remove_RejectsUnpublished(user, id) ==
    LET book == findBook(id)
        unpublished == [book EXCEPT !.isPublished = FALSE]
    IN  IF book.id = 0 \/ ~book.isPublished
        THEN [res |-> Throw("NotFound", "Book not found or already unpublished"),
              books |-> books]
        ELSE IF book.author.id = 0 \/ book.author.id # user.id
        THEN [res |-> Throw("Unauthorized", "You are not authorized to unpublish this book"),
              books |-> books]
        ELSE [res |-> Ok(unpublished),
              books |-> [books EXCEPT ![id] = BookRow(id, unpublished)]]

\* BooksService.remove calling booksRepository.remove instead of save
BooksService_remove_HardDelete(user, id) ==
    LET book == findBook(id)
        unpublished == [book EXCEPT !.isPublished = FALSE]
    IN  IF book.id = 0
        THEN [res |-> Throw("NotFound", "Book not found"), books |-> books]
        ELSE IF book.author.id = 0 \/ book.author.id # user.id
        THEN [res |-> Throw("Unauthorized", "You are not authorized to unpublish this book"),
              books |-> books]
        ELSE [res |-> Ok(unpublished),
              books |-> [i \in DOMAIN books \ {id} |-> books[i]]]

\* BooksService.remove applying the rule of create to the author
BooksService_remove_ForbidsDarthVader(user, id) ==
    LET book == findBook(id)
        unpublished == [book EXCEPT !.isPublished = FALSE]
    IN  IF book.id = 0
        THEN [res |-> Throw("NotFound", "Book not found"), books |-> books]
        ELSE IF book.author.id = 0 \/ book.author.id # user.id
        THEN [res |-> Throw("Unauthorized", "You are not authorized to unpublish this book"),
              books |-> books]
        ELSE IF book.author.username = "Darth Vader"
        THEN [res |-> Throw("Forbidden", "Darth Vader is not allowed to publish Wookie books."),
              books |-> books]
        ELSE [res |-> Ok(unpublished),
              books |-> [books EXCEPT ![id] = BookRow(id, unpublished)]]

\* BooksService.remove: result and the book table after it
BooksService_remove(user, id) ==
    LET book == findBook(id)
        unpublished == [book EXCEPT !.isPublished = FALSE]
    IN  IF book.id = 0
        THEN [res |-> Throw("NotFound", "Book not found"), books |-> books]
        ELSE IF book.author.id = 0 \/ book.author.id # user.id
        THEN [res |-> Throw("Unauthorized", "You are not authorized to unpublish this book"),
              books |-> books]
        ELSE [res |-> Ok(unpublished),
              books |-> [books EXCEPT ![id] = BookRow(id, unpublished)]]

\* BooksService.update up to the await of findOne and through the two checks:
\* the entity the rest of the method works on
BooksService_update_findOne(user, id) ==
    LET book == findBook(id)
    IN  IF book.id = 0
        THEN [res |-> Throw("NotFound", "Book not found"), book |-> Null]
        ELSE IF book.author.id = 0 \/ book.author.id # user.id
        THEN [res |-> Throw("Unauthorized", "You are not authorized to update this book"),
              book |-> Null]
        ELSE [res |-> Ok(book), book |-> book]

\* BooksService.update from Object.assign on: save brings every column of
\* the row to the value the entity holds
BooksService_update_save(book, bookData) ==
    LET assigned == ObjectAssign(book, bookData)
    IN  IF assigned.author.id # 0 /\ assigned.author.id \notin DOMAIN users
        THEN [res |-> Throw("InternalServerError", "An error occurred while updating the book"),
              books |-> books]
        ELSE [res |-> Ok(assigned),
              books |-> [books EXCEPT ![book.id] = BookRow(book.id, assigned)]]

\* BooksService.remove up to the await of findOne and through the two checks
BooksService_remove_findOne(user, id) ==
    LET book == findBook(id)
    IN  IF book.id = 0
        THEN [res |-> Throw("NotFound", "Book not found"), book |-> Null]
        ELSE IF book.author.id = 0 \/ book.author.id # user.id
        THEN [res |-> Throw("Unauthorized", "You are not authorized to unpublish this book"),
              book |-> Null]
        ELSE [res |-> Ok(book), book |-> book]

\* BooksService.remove from `book.isPublished = false` on
BooksService_remove_save(book) ==
    LET unpublished == [book EXCEPT !.isPublished = FALSE]
    IN  IF unpublished.author.id \notin DOMAIN users
        THEN [res |-> Throw("InternalServerError", "An error occurred while unpublishing the book"),
              books |-> books]
        ELSE [res |-> Ok(unpublished),
              books |-> [books EXCEPT ![book.id] = BookRow(book.id, unpublished)]]

(***************************************************************************)
(* BooksController                                                         *)
(***************************************************************************)
\* instanceToPlain on a User: the @Exclude()d password is dropped
UserToPlain(user) == WithoutPassword(user)

\* instanceToPlain on a Book with its author
instanceToPlain(book) == [book EXCEPT !.author = UserToPlain(book.author)]

\* GET /books (public): the listing, each book through instanceToPlain
FindAll(query) ==
    LET r == BooksService_findAllWithFilters(query)
        res == Ok({instanceToPlain(b) : b \in r.value})
    IN  /\ last' = ObjectAssign(Exchange("findAll", <<>>, NoAuth, 0, r, res),
                                [query |-> query])
        /\ UNCHANGED <<users, nextUserId, books, nextBookId, issued, inflight>>

\* GET /books/:id (public: no authenticator in front of it); with a falsy id
\* the handler throws before it calls the service
FindOne(id) ==
    LET r == BooksService_findOne(id)
        res == IF id = 0 THEN Throw("BadRequest", "Invalid book ID")
               ELSE IF r.kind = "ok" THEN Ok(instanceToPlain(r.value))
               ELSE IF r.kind \in {"BadRequest", "NotFound"} THEN r
               ELSE Throw("InternalServerError", "An error occurred while fetching the book")
    IN  /\ last' = Exchange("findOne", <<>>, NoAuth, id,
                            IF id = 0 THEN [kind |-> "none"] ELSE r, res)
        /\ UNCHANGED <<users, nextUserId, books, nextBookId, issued, inflight>>

\* BooksModule.configure with no route excluded
MiddlewareApplies_NoExclude(method, path) == path \in {"books", "books/:id"}

\* BooksModule.configure: JwtMiddleware is applied to the routes under
\* 'books', GET books and GET books/:id excluded
MiddlewareApplies(method, path) ==
    /\ path \in {"books", "books/:id"}
    /\ ~(method = "GET" /\ path = "books")
    /\ ~(method = "GET" /\ path = "books/:id")

\* what runs in front of the handler of a book route
RouteAuth(method, path, header) ==
    IF MiddlewareApplies(method, path) THEN JwtMiddleware(header)
    ELSE [res |-> Ok(Null), user |-> Null, next |-> TRUE]

\* BooksController.findOne: the service's outcome and the response
BooksController_findOne(id) ==
    LET r == BooksService_findOne(id)
    IN  [svc |-> IF id = 0 THEN [kind |-> "none"] ELSE r,
         res |-> IF id = 0 THEN Throw("BadRequest", "Invalid book ID")
                 ELSE IF r.kind = "ok" THEN Ok(instanceToPlain(r.value))
                 ELSE IF r.kind \in {"BadRequest", "NotFound"} THEN r
                 ELSE Throw("InternalServerError", "An error occurred while fetching the book")]

\* BooksController.findAll: the service's outcome and the response
BooksController_findAll(query) ==
    LET r == BooksService_findAllWithFilters(query)
    IN  [svc |-> r, res |-> Ok({instanceToPlain(b) : b \in r.value})]

\* GET /books/:id as a request with whatever Authorization header
GetBook(header, id) ==
    LET auth == RouteAuth("GET", "books/:id", header)
        c == BooksController_findOne(id)
    IN  /\ last' = IF auth.next THEN Exchange("findOne", header, auth, id, c.svc, c.res)
                   ELSE Rejected("findOne", header, auth)
        /\ UNCHANGED <<users, nextUserId, books, nextBookId, issued, inflight>>

\* GET /books as a request with whatever Authorization header
GetBooks(header, query) ==
    LET auth == RouteAuth("GET", "books", header)
        c == BooksController_findAll(query)
    IN  /\ last' = ObjectAssign(IF auth.next
                                THEN Exchange("findAll", header, auth, 0, c.svc, c.res)
                                ELSE Rejected("findAll", header, auth),
                                [query |-> query])
        /\ UNCHANGED <<users, nextUserId, books, nextBookId, issued, inflight>>

\* POST /books
CreateBook(header, bookData) ==
    LET auth == JwtMiddleware(header)
        r == BooksService_create(auth.user, bookData)
        res == IF r.res.kind = "ok" THEN Ok(instanceToPlain(r.res.value))
               ELSE Throw("InternalServerError", "An error occurred while creating the book")
    IN  /\ (auth.next /\ r.res.kind = "ok") => nextBookId <= MaxBooks
        /\ books' = IF auth.next THEN r.books ELSE books
        /\ nextBookId' = IF auth.next THEN r.nextBookId ELSE nextBookId
        /\ last' = IF auth.next THEN Exchange("createBook", header, auth, 0, r.res, res)
                   ELSE Rejected("createBook", header, auth)
        /\ UNCHANGED <<users, nextUserId, issued, inflight>>

\* POST /books, first step: the middleware and the handler up to the await of
\* the author lookup.  The request ends here when the middleware or the
\* lookup throws; otherwise it is suspended with the entity it will save.
CreateBookLookup(header, bookData) ==
    LET auth == JwtMiddleware(header)
        r == BooksService_create_findAuthor(auth.user, bookData)
        res == Throw("InternalServerError", "An error occurred while creating the book")
    IN  /\ (auth.next /\ r.res.kind = "ok") => Cardinality(inflight) < MaxInflight
        /\ inflight' = IF auth.next /\ r.res.kind = "ok"
                       THEN inflight \cup {[header |-> header, user |-> auth.user.id,
                                            book |-> r.book]}
                       ELSE inflight
        /\ last' = IF ~auth.next THEN Rejected("createBook", header, auth)
                   ELSE IF r.res.kind = "ok"
                   THEN Exchange("createBook", header, auth, 0, [kind |-> "await"],
                                 [kind |-> "await", message |-> "", value |-> Null])
                   ELSE Exchange("createBook", header, auth, 0, r.res, res)
        /\ UNCHANGED <<users, nextUserId, books, nextBookId, issued>>

\* POST /books, second step: a suspended request resumes with the save
CreateBookSave(req) ==
    LET r == BooksService_create_save(req.book)
        res == IF r.res.kind = "ok" THEN Ok(instanceToPlain(r.res.value))
               ELSE Throw("InternalServerError", "An error occurred while creating the book")
    IN  /\ req \in inflight
        /\ r.res.kind = "ok" => nextBookId <= MaxBooks
        /\ inflight' = inflight \ {req}
        /\ books' = r.books
        /\ nextBookId' = r.nextBookId
        /\ last' = Exchange("createBook", req.header, [user |-> [id |-> req.user], next |-> TRUE],
                            req.book.author.id, r.res, res)
        /\ UNCHANGED <<users, nextUserId, issued>>

\* the response to a request that is suspended at an await
Awaiting == [kind |-> "await", message |-> "", value |-> Null]

\* PATCH /books/:id, first step: the middleware and the handler up to the
\* await of findOne and the checks after it.  The request ends here when one
\* of them throws; otherwise it is suspended holding the entity it loaded.
UpdateBookFindOne(header, id, bookData) ==
    LET auth == JwtMiddleware(header)
        r == IF id = 0
             THEN [res |-> Throw("BadRequest", "Invalid book ID"), book |-> Null]
             ELSE BooksService_update_findOne(auth.user, id)
        res == IF r.res.kind \in {"BadRequest", "NotFound"} THEN r.res
               ELSE Throw("InternalServerError", "An error occurred while updating the book")
    IN  /\ (auth.next /\ r.res.kind = "ok") => Cardinality(inflight) < MaxPending
        /\ inflight' = IF auth.next /\ r.res.kind = "ok"
                       THEN inflight \cup {[op |-> "updateBook", header |-> header,
                                            user |-> auth.user.id, book |-> r.book,
                                            request |-> bookData]}
                       ELSE inflight
        /\ last' = ObjectAssign(IF ~auth.next THEN Rejected("updateBook", header, auth)
                                ELSE IF r.res.kind = "ok"
                                THEN Exchange("updateBook", header, auth, id,
                                              [kind |-> "await"], Awaiting)
                                ELSE Exchange("updateBook", header, auth, id, r.res, res),
                                [request |-> bookData])
        /\ UNCHANGED <<users, nextUserId, books, nextBookId, issued>>

\* PATCH /books/:id, second step: a suspended request resumes with
\* Object.assign and the save
UpdateBookSave(req) ==
    LET r == BooksService_update_save(req.book, req.request)
        res == IF r.res.kind = "ok" THEN Ok(instanceToPlain(r.res.value))
               ELSE Throw("InternalServerError", "An error occurred while updating the book")
    IN  /\ req \in inflight
        /\ req.op = "updateBook"
        /\ inflight' = inflight \ {req}
        /\ books' = r.books
        /\ last' = ObjectAssign(Exchange("updateBook", req.header,
                                         [user |-> [id |-> req.user], next |-> TRUE],
                                         req.book.id, r.res, res),
                                [request |-> req.request])
        /\ UNCHANGED <<users, nextUserId, nextBookId, issued>>

\* DELETE /books/:id, first step, like that of PATCH
RemoveBookFindOne(header, id) ==
    LET auth == JwtMiddleware(header)
        r == IF id = 0
             THEN [res |-> Throw("BadRequest", "Invalid book ID"), book |-> Null]
             ELSE BooksService_remove_findOne(auth.user, id)
        res == IF r.res.kind \in {"BadRequest", "NotFound"} THEN r.res
               ELSE Throw("InternalServerError", "An error occurred while removing the book")
    IN  /\ (auth.next /\ r.res.kind = "ok") => Cardinality(inflight) < MaxPending
        /\ inflight' = IF auth.next /\ r.res.kind = "ok"
                       THEN inflight \cup {[op |-> "removeBook", header |-> header,
                                            user |-> auth.user.id, book |-> r.book,
                                            request |-> <<>>]}
                       ELSE inflight
        /\ last' = IF ~auth.next THEN Rejected("removeBook", header, auth)
                   ELSE IF r.res.kind = "ok"
                   THEN Exchange("removeBook", header, auth, id, [kind |-> "await"], Awaiting)
                   ELSE Exchange("removeBook", header, auth, id, r.res, res)
        /\ UNCHANGED <<users, nextUserId, books, nextBookId, issued>>

\* DELETE /books/:id, second step: the flag is cleared on the loaded entity
\* and the entity saved
RemoveBookSave(req) ==
    LET r == BooksService_remove_save(req.book)
        res == IF r.res.kind = "ok" THEN Ok(instanceToPlain(r.res.value))
               ELSE Throw("InternalServerError", "An error occurred while removing the book")
    IN  /\ req \in inflight
        /\ req.op = "removeBook"
        /\ inflight' = inflight \ {req}
        /\ books' = r.books
        /\ last' = Exchange("removeBook", req.header,
                            [user |-> [id |-> req.user], next |-> TRUE],
                            req.book.id, r.res, res)
        /\ UNCHANGED <<users, nextUserId, nextBookId, issued>>

\* PATCH /books/:id
UpdateBook(header, id, bookData) ==
    LET auth == JwtMiddleware(header)
        r == IF id = 0
             THEN [res |-> Throw("BadRequest", "Invalid book ID"), books |-> books]
             ELSE BooksService_update(auth.user, id, bookData)
        res == IF r.res.kind = "ok" THEN Ok(instanceToPlain(r.res.value))
               ELSE IF r.res.kind \in {"BadRequest", "NotFound"} THEN r.res
               ELSE Throw("InternalServerError", "An error occurred while updating the book")
    IN  /\ books' = IF auth.next THEN r.books ELSE books
        /\ last' = ObjectAssign(IF auth.next
                                THEN Exchange("updateBook", header, auth, id, r.res, res)
                                ELSE Rejected("updateBook", header, auth),
                                [request |-> bookData])
        /\ UNCHANGED <<users, nextUserId, nextBookId, issued, inflight>>

\* DELETE /books/:id
RemoveBook(header, id) ==
    LET auth == JwtMiddleware(header)
        r == IF id = 0
             THEN [res |-> Throw("BadRequest", "Invalid book ID"), books |-> books]
             ELSE BooksService_remove(auth.user, id)
        res == IF r.res.kind = "ok" THEN Ok(instanceToPlain(r.res.value))
               ELSE IF r.res.kind \in {"BadRequest", "NotFound"} THEN r.res
               ELSE Throw("InternalServerError", "An error occurred while removing the book")
    IN  /\ books' = IF auth.next THEN r.books ELSE books
        /\ last' = IF auth.next THEN Exchange("removeBook", header, auth, id, r.res, res)
                   ELSE Rejected("removeBook", header, auth)
        /\ UNCHANGED <<users, nextUserId, nextBookId, issued, inflight>>

(***************************************************************************)
(* Specifications                                                          *)
(***************************************************************************)
\* field sets of PATCH /users/me
UpdateUserData ==
    {[username |-> n] : n \in Usernames}
      \cup {[password |-> "p2"], [authorPseudonym |-> "Chewie"]}

\* field sets of POST /books: every column without a default is supplied
CreateBookData ==
    {[title |-> "t1", description |-> "d", coverImage |-> "c", price |-> 10],
     [title |-> "t1", description |-> "d", coverImage |-> "c", price |-> 10,
      isPublished |-> FALSE, author |-> [id |-> 1]]}

\* field sets of PATCH /books/:id
UpdateBookData ==
    {[title |-> "t2"], [isPublished |-> TRUE]}
      \cup {[author |-> [id |-> u]] : u \in UserIds}

\* field sets of the books the listing is asked about
ListedBookData ==
    {[title |-> "t1", description |-> "d", coverImage |-> "c", price |-> 10],
     [title |-> "t2", description |-> "d", coverImage |-> "c", price |-> 30,
      isPublished |-> FALSE],
     [title |-> "t1", description |-> "d", coverImage |-> "c", price |-> 35]}

\* the values each query parameter takes when it is present
QueryValues(k) ==
    CASE k = "title" -> {"T1"}
      [] k = "authorPseudonym" -> {"VADER"}
      [] k = "isPublished" -> {"true", "false", ""}
      [] k = "minPrice" -> {"", "10"}
      [] k = "maxPrice" -> {"30"}

QueryKeys == {"title", "authorPseudonym", "isPublished", "minPrice", "maxPrice"}

\* every combination of absent and present parameters, and the other
\* parameters present with the empty string
Queries ==
    {q \in UNION {[K -> {"", "T1", "VADER", "true", "false", "10", "30"}] : K \in SUBSET QueryKeys} :
        \A k \in DOMAIN q : q[k] \in QueryValues(k)}
      \cup {[title |-> ""], [authorPseudonym |-> ""], [minPrice |-> "10", maxPrice |-> ""]}

Init ==
    /\ users = <<>>
    /\ nextUserId = 1
    /\ books = <<>>
    /\ nextBookId = 1
    /\ issued = {}
    /\ inflight = {}
    /\ last = Exchange("none", <<>>, NoAuth, 0, [kind |-> "none"], Ok(Null))

\* the book routes, over users that register and log in; a request with a
\* bad header is sent once per route
Next ==
    \/ \E n \in Usernames : CreateUser(n, "p1")
    \/ \E n \in Usernames : Login(n, "p1")
    \/ \E id \in 0..MaxBooks : FindOne(id)
    \/ \E h \in GoodHeaders, d \in CreateBookData : CreateBook(h, d)
    \/ \E h \in GoodHeaders, id \in 0..MaxBooks, d \in UpdateBookData : UpdateBook(h, id, d)
    \/ \E h \in GoodHeaders, id \in 0..MaxBooks : RemoveBook(h, id)
    \/ \E h \in BadHeaders : CreateBook(h, [title |-> "t1", description |-> "d", coverImage |-> "c", price |-> 10])
    \/ \E h \in BadHeaders : UpdateBook(h, 1, [title |-> "t2"])
    \/ \E h \in BadHeaders : RemoveBook(h, 1)

Spec == Init /\ [][Next]_vars

\* the user and login routes, and the authenticator of the book routes
NextUsers ==
    \/ \E n \in Usernames \cup {""}, p \in {"p1", ""} : CreateUser(n, p)
    \/ \E n \in Usernames \cup {"nobody"}, p \in Passwords : Login(n, p)
    \/ \E h \in Headers : GetProfile(h)
    \/ \E h \in GoodHeaders, d \in UpdateUserData : UpdateProfile(h, d)
    \/ \E h \in BadHeaders : UpdateProfile(h, [password |-> "p2"])
    \/ \E h \in Headers : DeleteProfile(h)
    \/ \E h \in Headers : RemoveBook(h, 1)

SpecUsers == Init /\ [][NextUsers]_vars

\* accounts that register, log in, publish and delete themselves, POST /books
\* cut at its await so that other requests run in between
NextRace ==
    \/ \E n \in Usernames : CreateUser(n, "p1")
    \/ \E n \in Usernames : Login(n, "p1")
    \/ \E h \in GoodHeaders : DeleteProfile(h)
    \/ \E h \in GoodHeaders :
          CreateBookLookup(h, [title |-> "t1", description |-> "d", coverImage |-> "c", price |-> 10])
    \/ \E req \in inflight : CreateBookSave(req)

SpecRace == Init /\ [][NextRace]_vars

\* one author whose PATCH and DELETE requests on a book are cut at the await
\* of findOne, so that one request reads between the read and the save of
\* another
NextInterleaved ==
    \/ CreateUser("darth vader", "p1")
    \/ Login("darth vader", "p1")
    \/ \E h \in GoodHeaders :
          CreateBook(h, [title |-> "t1", description |-> "d", coverImage |-> "c", price |-> 10])
    \/ \E h \in GoodHeaders, id \in 1..MaxBooks, d \in {[title |-> "t2"], [isPublished |-> TRUE]} :
          UpdateBookFindOne(h, id, d)
    \/ \E req \in inflight : UpdateBookSave(req)
    \/ \E h \in GoodHeaders, id \in 1..MaxBooks : RemoveBookFindOne(h, id)
    \/ \E req \in inflight : RemoveBookSave(req)

SpecInterleaved == Init /\ [][NextInterleaved]_vars

\* field sets an owner sends to PATCH /books/:id
OwnerUpdateData ==
    {[title |-> "t2", price |-> 20],
     [description |-> "d2", coverImage |-> "c2"],
     [isPublished |-> TRUE]}

\* one account that publishes, changes its username, and goes on editing and
\* unpublishing its books
NextOwner ==
    \/ CreateUser("darth vader", "p1")
    \/ Login("darth vader", "p1")
    \/ \E h \in GoodHeaders, n \in Usernames : UpdateProfile(h, [username |-> n])
    \/ \E h \in GoodHeaders, d \in CreateBookData : CreateBook(h, d)
    \/ \E h \in GoodHeaders, id \in DOMAIN books, d \in OwnerUpdateData : UpdateBook(h, id, d)
    \/ \E h \in GoodHeaders, id \in DOMAIN books : RemoveBook(h, id)

SpecOwner == Init /\ [][NextOwner]_vars

\* books that differ in title, description and publication flag
SearchedBookData ==
    {[title |-> "t1", description |-> "d", coverImage |-> "c", price |-> 10],
     [title |-> "t2", description |-> "t1", coverImage |-> "c", price |-> 10,
      isPublished |-> FALSE],
     [title |-> "t12", description |-> "d", coverImage |-> "c", price |-> 10]}

\* findAll(), findAll('') and findAll(term)
SearchArgs == {<<>>, <<"">>, <<"t1">>, <<"d">>, <<"T1">>}

\* the simple listing over the books of one author, who may unpublish them
NextSearch ==
    \/ CreateUser("darth vader", "p1")
    \/ Login("darth vader", "p1")
    \/ \E h \in GoodHeaders, d \in SearchedBookData : CreateBook(h, d)
    \/ \E h \in GoodHeaders, id \in DOMAIN books : RemoveBook(h, id)
    \/ \E a \in SearchArgs : SimpleListing(a)

SpecSearch == Init /\ [][NextSearch]_vars

\* the public listing over the books of one author, who may change pseudonym
\* and may give a book away
NextListing ==
    \/ CreateUser("darth vader", "p1")
    \/ Login("darth vader", "p1")
    \/ \E h \in GoodHeaders : UpdateProfile(h, [authorPseudonym |-> "Chewie"])
    \/ \E h \in GoodHeaders, d \in ListedBookData : CreateBook(h, d)
    \/ \E h \in GoodHeaders, id \in DOMAIN books : UpdateBook(h, id, [author |-> Null])
    \/ \E q \in Queries : FindAll(q)

SpecListing == Init /\ [][NextListing]_vars

\* the book routes asked with and without credentials
NextPublic ==
    \/ \E n \in Usernames : CreateUser(n, "p1")
    \/ \E n \in Usernames : Login(n, "p1")
    \/ \E h \in Headers : GetBook(h, 1)
    \/ \E h \in Headers : GetBook(h, 0)
    \/ \E h \in Headers, q \in {<<>>, [isPublished |-> "true"]} : GetBooks(h, q)
    \/ \E h \in Headers :
          CreateBook(h, [title |-> "t1", description |-> "d", coverImage |-> "c", price |-> 10])
    \/ \E h \in Headers : UpdateBook(h, 1, [title |-> "t2"])
    \/ \E h \in Headers : RemoveBook(h, 1)

SpecPublic == Init /\ [][NextPublic]_vars

\* registration and login, the user table or the token service failing at
\* times
NextFaults ==
    \/ \E n \in Usernames : CreateUser(n, "p1")
    \/ \E f \in Faults, n \in Usernames \cup {"nobody"}, p \in Passwords : LoginUnder(f, n, p)
    \/ \E h \in GoodHeaders : GetProfile(h)

SpecFaults == Init /\ [][NextFaults]_vars

(***************************************************************************)
(* Properties.  Every action writes the exchange of its own request into   *)
(* last, so in a step last' is the request of that step and the unprimed   *)
(* tables are the tables the request found.                                *)
(***************************************************************************)
ProtectedBookOps == {"createBook", "updateBook", "removeBook"}

\* C1: a request by a user who is not the author of book b fails in
\* BooksService.update / remove with Unauthorized and leaves b as it was, and
\* whenever a stored book changes, the request that changed it was made by
\* the user who was its author.
C1_OnlyOwnerMutates ==
    [][\A b \in DOMAIN books :
          /\ (/\ last'.op \in {"updateBook", "removeBook"}
              /\ last'.next
              /\ last'.id = b
              /\ last'.user # books[b].author)
                => (last'.svc = "Unauthorized" /\ books'[b] = books[b])
          /\ books'[b] # books[b] => last'.user = books[b].author]_vars

\* a second registered user was refused on a stored book of another user
C1_Witness ==
    /\ last.op \in {"updateBook", "removeBook"}
    /\ last.svc = "Unauthorized"
    /\ last.user \in DOMAIN users
    /\ last.id \in DOMAIN books
    /\ books[last.id].author \in DOMAIN users \ {last.user}

C3_AuthorNeverChanges ==
    [][/\ \A b \in DOMAIN books : books'[b].author = books[b].author
       /\ (last'.op = "createBook" /\ last'.svc = "ok" /\ nextBookId' # nextBookId)
             => books'[nextBookId].author = last'.user]_vars

C5_RemoveOnlyUnpublishes ==
    [][/\ DOMAIN books \subseteq DOMAIN books'
       /\ (last'.op = "removeBook" /\ last'.svc = "ok")
             => books' = [books EXCEPT ![last'.id].isPublished = FALSE]]_vars

\* a remove succeeded while another book is stored, and both rows are there
C5_Witness ==
    /\ last.op = "removeBook"
    /\ last.svc = "ok"
    /\ DOMAIN books = 1..2
    /\ ~books[last.id].isPublished

\* C6: validateUser with a username that is not stored fails with the same
\* exception class and the same message as with a stored username and a
\* password that does not verify, and the login route answers both alike.
C6_LoginFailuresAlike ==
    /\ \A n \in Usernames \cup {"nobody"}, p \in Passwords :
          findByUsername(n).id = 0 =>
             /\ validateUser(n, p).kind = "Unauthorized"
             /\ \A m \in Usernames, q \in Passwords :
                   (findByUsername(m).id # 0 /\ validateUser(m, q).kind # "ok") =>
                      /\ validateUser(m, q).kind = validateUser(n, p).kind
                      /\ validateUser(m, q).message = validateUser(n, p).message
    /\ (last.op = "login" /\ last.kind # "ok") =>
          /\ last.kind = "Unauthorized"
          /\ last.message = "Invalid username or password"
          /\ last.body = [statusCode |-> 401, message |-> "Invalid username or password"]

\* a login with an unknown username was refused while a user is stored whose
\* password the other password does not match
C6_Witness ==
    /\ last.op = "login"
    /\ last.id = 0
    /\ last.kind = "Unauthorized"
    /\ \E u \in DOMAIN users : \E q \in Passwords :
          validateUser(users[u].username, q).kind = "Unauthorized"

\* a payload with a password in it, its own or its author's
HasPassword(body) ==
    \/ "password" \in DOMAIN body
    \/ ("author" \in DOMAIN body /\ "password" \in DOMAIN body.author)

\* C7: no response payload holds a password, digest or plaintext.
C7_NoPasswordInPayload == ~HasPassword(last.body)

\* C8: the password column of every stored user holds a bcrypt digest.
C8_PasswordsAreDigests ==
    \A u \in DOMAIN users : users[u].password.alg = "bcrypt"

\* a header that is absent, does not start with "Bearer ", or whose token no
\* login signed
BadHeader(h) ==
    \/ h = <<>>
    \/ Len(h) < 2
    \/ h[1] # "Bearer"
    \/ h[2] \notin issued

\* C9: a request on POST /books, PATCH /books/:id or DELETE /books/:id with
\* such a header is answered Unauthorized by the middleware, next() is not
\* called, no service method runs and the book table is unchanged.
C9_BadHeaderRejected ==
    [][(last'.op \in ProtectedBookOps /\ BadHeader(last'.header)) =>
          /\ last'.kind = "Unauthorized"
          /\ ~last'.next
          /\ last'.svc = "none"
          /\ last'.user = 0
          /\ books' = books
          /\ nextBookId' = nextBookId]_vars

\* a token signed with another key was refused on a stored book's route
C9_Witness ==
    /\ last.op \in {"updateBook", "removeBook"}
    /\ Len(last.header) = 2
    /\ last.header[1] = "Bearer"
    /\ last.header[2] \notin issued
    /\ ~last.next
    /\ 1 \in DOMAIN books

\* C10: the token a login returns carries the username and the id of the
\* user it was made for, and in every later state the middleware accepts
\* every issued token and sets req.user to exactly {id: sub}, whether or not
\* that user is still stored or still has the same name or password.
C10_TokenStaysValid ==
    /\ (last.op = "login" /\ last.kind = "ok") =>
          /\ last.id \in DOMAIN users
          /\ last.body.access_token.sub = last.id
          /\ last.body.access_token.username = users[last.id].username
          /\ last.body.access_token \in issued
    /\ \A t \in issued :
          /\ JwtMiddleware(<<"Bearer", t>>).next
          /\ JwtMiddleware(<<"Bearer", t>>).user = [id |-> t.sub]
    /\ (last.op = "removeBook" /\ last.header \in GoodHeaders) =>
          /\ last.next
          /\ last.user = last.header[2].sub

\* the token of a user who has been deleted was accepted on a book route
C10_Witness ==
    /\ last.op = "removeBook"
    /\ last.header \in GoodHeaders
    /\ last.next
    /\ last.user = last.header[2].sub
    /\ last.user \notin DOMAIN users

\* C11: a create-book request that arrives with an accepted token whose
\* subject is no longer in the user table fails in BooksService.create with
\* NotFound, is not suspended for a save, and stores no book.
C11_DanglingSubjectNotFound ==
    [][(/\ last'.op = "createBook"
        /\ last'.next
        /\ inflight \subseteq inflight'
        /\ last'.user \notin DOMAIN users)
          => /\ last'.svc = "NotFound"
             /\ inflight' = inflight
             /\ books' = books
             /\ nextBookId' = nextBookId]_vars

\* the token of a login was used to create a book after its user was deleted
C11_Witness ==
    /\ last.op = "createBook"
    /\ last.svc = "NotFound"
    /\ last.header \in GoodHeaders
    /\ last.user = last.header[2].sub
    /\ last.user \notin DOMAIN users
    /\ last.user < nextUserId

\* p occurs in v, letters compared as the store's collation compares them
IsSubstring(p, v) ==
    \E i \in 0..(Len(v) - Len(p)) :
       \A j \in 1..Len(p) : lower(v[i + j]) = lower(p[j])

\* the parameter is present with a value that is not the empty string
Supplied(q, k) == k \in DOMAIN q /\ q[k] # ""

\* the ids of the books in a listing
ListedIds(body) == {x.id : x \in body}

\* the stored book b satisfies every predicate whose parameter is supplied
\* (for isPublished: present, whatever its value)
C12_Selected(b, q) ==
    /\ Supplied(q, "title") => IsSubstring(chars(q.title), chars(books[b].title))
    /\ Supplied(q, "authorPseudonym") =>
          /\ books[b].author \in DOMAIN users
          /\ IsSubstring(chars(q.authorPseudonym),
                         chars(users[books[b].author].authorPseudonym))
    /\ "isPublished" \in DOMAIN q => (books[b].isPublished <=> q.isPublished = "true")
    /\ (Supplied(q, "minPrice") /\ Supplied(q, "maxPrice")) =>
          /\ ~parseFloat(q.minPrice).nan /\ ~parseFloat(q.maxPrice).nan
          /\ parseFloat(q.minPrice).n <= books[b].price
          /\ books[b].price <= parseFloat(q.maxPrice).n

C12_SelectedWhenPresent(b, q) ==
    /\ "title" \in DOMAIN q => IsSubstring(chars(q.title), chars(books[b].title))
    /\ "authorPseudonym" \in DOMAIN q =>
          /\ books[b].author \in DOMAIN users
          /\ IsSubstring(chars(q.authorPseudonym),
                         chars(users[books[b].author].authorPseudonym))
    /\ "isPublished" \in DOMAIN q => (books[b].isPublished <=> q.isPublished = "true")
    /\ {"minPrice", "maxPrice"} \subseteq DOMAIN q =>
          /\ ~parseFloat(q.minPrice).nan /\ ~parseFloat(q.maxPrice).nan
          /\ parseFloat(q.minPrice).n <= books[b].price
          /\ books[b].price <= parseFloat(q.maxPrice).n

PriceKeys == {"minPrice", "maxPrice"}

\* a query without some of its parameters
Without(q, K) == [k \in DOMAIN q \ K |-> q[k]]

\* the ids findAllWithFilters returns for a query on the current tables
Listing(q) == ListedIds(BooksService_findAllWithFilters(q).value)

\* C13: findAllWithFilters adds the price clause exactly when minPrice and
\* maxPrice are both present and neither is the empty string; with the
\* clause the listing is the listing of the same query without the two
\* bounds, cut down to the books with minPrice <= price <= maxPrice, both
\* bounds included; with one bound alone, none, or an empty one, it is the
\* listing of the query without the bounds.
C13_PriceFilter ==
    last.op = "findAll" =>
       LET q == last.query
           rest == Without(q, PriceKeys)
       IN  IF Supplied(q, "minPrice") /\ Supplied(q, "maxPrice")
           THEN /\ "price" \in WhereClauses(q)
                /\ ListedIds(last.body) =
                      {b \in Listing(rest) :
                          /\ parseFloat(q.minPrice).n <= books[b].price
                          /\ books[b].price <= parseFloat(q.maxPrice).n}
           ELSE /\ "price" \notin WhereClauses(q)
                /\ ListedIds(last.body) = Listing(rest)

\* a listing between 10 and 30 kept a book priced at a bound and dropped one
\* priced 35
C13_Witness ==
    /\ last.op = "findAll"
    /\ PriceKeys \subseteq DOMAIN last.query
    /\ last.query.minPrice = "10"
    /\ last.query.maxPrice = "30"
    /\ \E x \in last.body : x.price \in {10, 30}
    /\ \E b \in DOMAIN books : books[b].price = 35 /\ b \notin ListedIds(last.body)

\* C13 as stated: the price filter applies when minPrice and maxPrice are
\* both present, and only then, keeping the books whose price lies between
\* the numbers the two parameters hold.
C13_PriceFilterWhenPresent ==
    last.op = "findAll" =>
       LET q == last.query
           rest == Without(q, PriceKeys)
       IN  IF PriceKeys \subseteq DOMAIN q
           THEN ListedIds(last.body) =
                   {b \in Listing(rest) :
                       /\ ~parseFloat(q.minPrice).nan /\ ~parseFloat(q.maxPrice).nan
                       /\ parseFloat(q.minPrice).n <= books[b].price
                       /\ books[b].price <= parseFloat(q.maxPrice).n}
           ELSE ListedIds(last.body) = Listing(rest)

\* C14: when isPublished is present the listing is the listing of the same
\* query without it, cut down to the books whose isPublished column equals
\* (parameter = "true"): "true" keeps the published books, and "false",
\* the empty string and every other value keep the unpublished ones.
C14_PublishedFlagFromString ==
    (last.op = "findAll" /\ "isPublished" \in DOMAIN last.query) =>
       /\ ListedIds(last.body) =
             {b \in Listing(Without(last.query, {"isPublished"})) :
                 books[b].isPublished <=> (last.query.isPublished = "true")}
       /\ \A x \in last.body :
             IF last.query.isPublished = "true" THEN x.isPublished ELSE ~x.isPublished

\* a listing with isPublished present as the empty string returned an
\* unpublished book and left a published one out
C14_Witness ==
    /\ last.op = "findAll"
    /\ "isPublished" \in DOMAIN last.query
    /\ last.query.isPublished = ""
    /\ \E x \in last.body : ~x.isPublished
    /\ \E b \in DOMAIN books : books[b].isPublished /\ b \notin ListedIds(last.body)

C16_PolicyErrorsPassThrough ==
    (last.op \in ProtectedBookOps /\ last.svc \in {"Forbidden", "NotFound", "Unauthorized"}) =>
       /\ last.kind = last.svc
       /\ last.body.statusCode = statusCode(last.svc)

\* C17: right after POST /users with {username, password} has succeeded, the
\* stored user has that username and authorPseudonym equal to it,
\* validateUser with the same username and plaintext succeeds with that
\* user's id (and the login route signs a token for that id), and
\* validateUser with any other password fails with Unauthorized.
C17_RegisterThenAuthenticate ==
    (last.op = "createUser" /\ last.kind = "ok") =>
       LET id == last.body.id
           req == last.request
       IN  /\ id \in DOMAIN users
           /\ users[id].username = req.username
           /\ users[id].authorPseudonym = req.username
           /\ validateUser(req.username, req.password).kind = "ok"
           /\ validateUser(req.username, req.password).value.id = id
           /\ AuthController_login(req).kind = "ok"
           /\ AuthController_login(req).value.access_token.sub = id
           /\ \A p \in (Passwords \cup {""}) \ {req.password} :
                 /\ validateUser(req.username, p).kind = "Unauthorized"
                 /\ AuthController_login([username |-> req.username, password |-> p]).kind
                       = "Unauthorized"

\* a second user has just registered beside the first
C17_Witness ==
    /\ last.op = "createUser"
    /\ last.kind = "ok"
    /\ last.body.id = 2
    /\ last.request.password = "p1"
    /\ DOMAIN users = {1, 2}

\* C18: no two stored users have the same username; in every reachable state
\* UsersService.create with the username of a stored user, and
\* UsersService.update of a user to the username of another stored user,
\* fail and leave the user table as it is, and so do the routes over them.
C18_UsernamesUnique ==
    /\ \A i, j \in DOMAIN users : i # j => users[i].username # users[j].username
    /\ \A n \in Usernames :
          UsernameTaken(n, 0) =>
             LET r == UsersService_create([username |-> n, password |-> "p1",
                                           authorPseudonym |-> n])
             IN  r.res.kind \notin {"ok"} /\ r.users = users /\ r.nextUserId = nextUserId
    /\ \A id \in DOMAIN users : \A n \in Usernames :
          UsernameTaken(n, id) =>
             LET r == UsersService_update(id, [username |-> n])
             IN  r.res.kind \notin {"ok"} /\ r.users = users
    /\ (last.op \in {"createUser", "updateProfile"} /\ last.svc = "InternalServerError")
          => last.kind = "InternalServerError"

\* a user's change of username to that of the other stored user was refused
C18_Witness ==
    /\ last.op = "updateProfile"
    /\ last.svc = "InternalServerError"
    /\ last.user \in DOMAIN users
    /\ Cardinality(DOMAIN users) = 2
    /\ \E j \in DOMAIN users : j # last.user /\ users[j].username # users[last.user].username

C20_StaleAuthorSaveRejected ==
    [][/\ (/\ last'.op = "createBook"
            /\ inflight' # inflight
            /\ inflight' \subseteq inflight
            /\ last'.user \notin DOMAIN users)
              => /\ last'.svc = "QueryFailedError"
                 /\ last'.kind = "InternalServerError"
                 /\ books' = books
                 /\ nextBookId' = nextBookId
       /\ \A b \in DOMAIN books' : books'[b].author \in DOMAIN users']_vars

\* a create-book request found its author, the user was deleted, and the
\* save then failed
C20_Witness ==
    /\ last.op = "createBook"
    /\ last.svc = "QueryFailedError"
    /\ last.header \in GoodHeaders
    /\ last.user \notin DOMAIN users
    /\ last.user < nextUserId

\* C20 as stated: in the interleaving where the lookup succeeded and the user
\* was deleted before the save, the book is saved with the author that no
\* longer exists.
C20_StaleAuthorBookSaved ==
    [][(/\ last'.op = "createBook"
        /\ inflight' # inflight
        /\ inflight' \subseteq inflight
        /\ last'.user \notin DOMAIN users)
          => /\ last'.kind = "ok"
             /\ \E b \in DOMAIN books' \ DOMAIN books : books'[b].author = last'.user]_vars

\* the methods a client may use on the book routes
Methods == {"GET", "POST", "PATCH", "DELETE"}

\* C21: JwtMiddleware is in front of every method of books and books/:id
\* except GET.  A GET /books or GET /books/:id reaches its handler whatever
\* the Authorization header, sets no req.user, and its response is the
\* handler's response for that id or query on the stored books, the same for
\* every header; POST, PATCH and DELETE with a bad header stop in the
\* middleware.
C21_PublicReadsBypass ==
    /\ \A m \in Methods, path \in {"books", "books/:id"} :
          MiddlewareApplies(m, path) <=> m # "GET"
    /\ last.op = "findOne" =>
          /\ last.next
          /\ last.user = 0
          /\ last.kind = BooksController_findOne(last.id).res.kind
          /\ last.body = BooksController_findOne(last.id).res.value
    /\ last.op = "findAll" =>
          /\ last.next
          /\ last.user = 0
          /\ last.kind = "ok"
          /\ last.body = BooksController_findAll(last.query).res.value
    /\ (last.op \in ProtectedBookOps /\ BadHeader(last.header)) =>
          ~last.next /\ last.kind = "Unauthorized"
    /\ (last.op \in ProtectedBookOps /\ ~BadHeader(last.header)) => last.next

\* a stored book was served to a request with a token no login signed
C21_Witness ==
    /\ last.op = "findOne"
    /\ Len(last.header) = 2
    /\ last.header[2] \notin issued
    /\ last.kind = "ok"
    /\ last.body.id = 1

\* C22: for every stored user and every password that bcrypt.compare accepts
\* against the stored digest, validateUser succeeds and returns a record with
\* every column of the stored row but password, each with its stored value.
C22_ValidateUserStripsPassword ==
    \A u \in DOMAIN users : \A p \in Passwords :
       bcryptCompare(p, users[u].password) =>
          LET r == validateUser(users[u].username, p)
          IN  /\ r.kind = "ok"
              /\ DOMAIN r.value = DOMAIN users[u] \ {"password"}
              /\ \A f \in DOMAIN r.value : r.value[f] = users[u][f]

\* a user who took another pseudonym has just logged in
C22_Witness ==
    /\ last.op = "login"
    /\ last.kind = "ok"
    /\ last.id \in DOMAIN users
    /\ users[last.id].authorPseudonym = "Chewie"
    /\ validateUser(users[last.id].username, "p1").kind = "ok"

\* the stored user of that name, if any, does not have that password
CredentialMismatch(req) ==
    \/ findByUsername(req.username).id = 0
    \/ ~bcryptCompare(req.password, findByUsername(req.username).password)

\* C25: a login during which the user lookup fails is answered
\* InternalServerError; one whose lookup works and whose credentials do not
\* match is answered Unauthorized; one whose credentials match and whose
\* token signing fails is answered InternalServerError; in none of the three
\* is a token returned or issued; otherwise the login succeeds.
C25_LoginFailureKinds ==
    [][last'.op = "login" =>
          IF last'.fault = "store"
          THEN /\ last'.kind = "InternalServerError"
               /\ "access_token" \notin DOMAIN last'.body
               /\ issued' = issued
          ELSE IF CredentialMismatch(last'.request)
          THEN /\ last'.kind = "Unauthorized"
               /\ "access_token" \notin DOMAIN last'.body
               /\ issued' = issued
          ELSE IF last'.fault = "sign"
          THEN /\ last'.kind = "InternalServerError"
               /\ "access_token" \notin DOMAIN last'.body
               /\ issued' = issued
          ELSE /\ last'.kind = "ok"
               /\ last'.body.access_token \in issued']_vars

\* the right password of a stored user met a failing token service
C25_Witness ==
    /\ last.op = "login"
    /\ last.fault = "sign"
    /\ ~CredentialMismatch(last.request)
    /\ last.kind = "InternalServerError"

\* C23: BooksService.findAll without a search term (or with the empty
\* string) returns exactly the stored books whose isPublished is true; with
\* a search term it returns exactly the stored books whose title is the term
\* or whose description is the term, published or not; each book comes with
\* its author.
C23_SimpleListing ==
    last.op = "BooksService.findAll" =>
        /\ last.kind = "ok"
        /\ \A x \in last.body : x.id \in DOMAIN books /\ x = WithAuthor(books[x.id])
        /\ IF last.search \in {<<>>, <<"">>}
           THEN ListedIds(last.body) = {b \in DOMAIN books : books[b].isPublished}
           ELSE ListedIds(last.body) =
                    {b \in DOMAIN books : last.search[1] \in {books[b].title, books[b].description}}

\* a term found an unpublished book by its description and left out a book
\* whose title only contains the term
C23_Witness ==
    /\ last.op = "BooksService.findAll"
    /\ last.search = <<"t1">>
    /\ \E x \in last.body : ~x.isPublished /\ x.description = "t1"
    /\ \E b \in DOMAIN books : books[b].title = "t12" /\ b \notin ListedIds(last.body)

\* C24: POST /users with an empty username or an empty password leaves the
\* user table as it was, UsersService.create throws BadRequest, and the
\* response is BadRequest.
C24_RegistrationValidationFailure ==
    [][(last'.op = "createUser" /\ "" \in {last'.request.username, last'.request.password}) =>
          /\ users' = users
          /\ nextUserId' = nextUserId
          /\ last'.svc = "BadRequest"
          /\ last'.kind = "BadRequest"]_vars

\* the fields of a book the claim lets an update supply
MutableFields == {"title", "description", "price", "coverImage", "isPublished"}

\* C26: when PATCH /books/:id by the author of the book has succeeded with
\* fields among title, description, price, coverImage and isPublished, the
\* stored book has the supplied value in each supplied field and its former
\* value in every other field, and every other book and every user is as
\* before; so supplying isPublished = true publishes an unpublished book.
C26_UpdateSetsSuppliedFields ==
    [][(/\ last'.op = "updateBook" /\ last'.svc = "ok"
        /\ DOMAIN last'.request \subseteq MutableFields)
          => /\ last'.id \in DOMAIN books
             /\ books[last'.id].author = last'.user
             /\ books' = [books EXCEPT ![last'.id] =
                             [f \in DOMAIN @ |->
                                 IF f \in DOMAIN last'.request THEN last'.request[f] ELSE @[f]]]
             /\ users' = users
             /\ last'.kind = "ok"]_vars

\* an update with isPublished = true has succeeded on a book that carries a
\* title and a description set by earlier updates
C26_Witness ==
    /\ last.op = "updateBook" /\ last.svc = "ok"
    /\ last.request = [isPublished |-> TRUE]
    /\ books[last.id].isPublished
    /\ books[last.id].title = "t2"
    /\ books[last.id].description = "d2"
    /\ \E b \in DOMAIN books : b # last.id /\ ~books[b].isPublished

\* C27: PATCH /books/:id and DELETE /books/:id never fail with Forbidden,
\* in the service or in the response; sent by the author of the book when
\* the author's stored username is 'Darth Vader', each succeeds, and the
\* delete leaves the book unpublished.
C27_ForbiddenOnlyAtCreation ==
    [][last'.op \in {"updateBook", "removeBook"} =>
          /\ last'.svc # "Forbidden"
          /\ last'.kind # "Forbidden"
          /\ (/\ last'.next
              /\ last'.id \in DOMAIN books
              /\ books[last'.id].author = last'.user
              /\ last'.user \in DOMAIN users
              /\ users[last'.user].username = "Darth Vader")
                => /\ last'.svc = "ok"
                   /\ last'.kind = "ok"
                   /\ last'.op = "removeBook" => ~books'[last'.id].isPublished]_vars

\* the author, now named 'Darth Vader', has unpublished a book of theirs
C27_Witness ==
    /\ last.op = "removeBook" /\ last.svc = "ok" /\ last.kind = "ok"
    /\ users[last.user].username = "Darth Vader"
    /\ books[last.id].author = last.user
    /\ ~books[last.id].isPublished

\* no published book has an author whose stored username is 'Darth Vader'
NoPublishedBookOfDarthVader ==
    \A b \in DOMAIN books :
        (books[b].isPublished /\ books[b].author \in DOMAIN users)
            => users[books[b].author].username # "Darth Vader"

C29_NewPasswordLogsIn ==
    (/\ last.op = "updateProfile" /\ last.kind = "ok"
     /\ "password" \in DOMAIN last.request) =>
        /\ validateUser(users[last.user].username, last.request.password).kind = "ok"
        /\ validateUser(users[last.user].username, "p1").kind = "Unauthorized"

\* C30: with the owner's updates and removes of a book interleaved at their
\* awaits, the stored isPublished of a book goes from false to true only in
\* the save of an update whose body supplies isPublished = true.
C30_UnpublishedStaysUnpublished ==
    [][\A b \in DOMAIN books :
          (~books[b].isPublished /\ books'[b].isPublished) =>
              /\ last'.op = "updateBook"
              /\ last'.id = b
              /\ "isPublished" \in DOMAIN last'.request
              /\ last'.request.isPublished]_vars
====
